---- MODULE Spec2Model ----
(***************************************************************************)
(* The read-only repository view of pants.scm.git.Git: exists, isfile,     *)
(* isdir, listdir, open and _realpath over "git cat-file --batch".         *)
(*                                                                         *)
(* A text (path, blob content, request line) is a sequence of symbols.  A  *)
(* symbol is "/", "." or a name atom: a string that stands for a run of    *)
(* one or more characters none of which is "/" or ".".                     *)
(***************************************************************************)
EXTENDS Integers, Sequences, FiniteSets, TLC

\* ------------------------------------------------------------------ bounds
\* Length of the longest chain of in-repository symlinks in revision r1.
ChainMax == 41

\* ------------------------------------------------------- program constants
\* git.py:428  "if symlinks > 40"
MaxSymlinks == 40

\* --------------------------------------------------------- text primitives
SEP == "/"
DOT == "."
NoneText == <<"None">>

startswith(s, pre) ==
  /\ Len(s) >= Len(pre)
  /\ SubSeq(s, 1, Len(pre)) = pre

endswith(s, suf) ==
  /\ Len(s) >= Len(suf)
  /\ SubSeq(s, Len(s) - Len(suf) + 1, Len(s)) = suf

RECURSIVE SplitAcc(_, _, _)
SplitAcc(s, cur, acc) ==
  IF s = <<>> THEN Append(acc, cur)
  ELSE IF Head(s) = SEP THEN SplitAcc(Tail(s), <<>>, Append(acc, cur))
  ELSE SplitAcc(Tail(s), Append(cur, Head(s)), acc)

\* str.split('/'): the components between separators, empty ones included.
split(s) == SplitAcc(s, <<>>, <<>>)

RECURSIVE join(_)
\* '/'.join(comps)
join(comps) ==
  IF comps = <<>> THEN <<>>
  ELSE IF Len(comps) = 1 THEN comps[1]
  ELSE comps[1] \o <<SEP>> \o join(Tail(comps))

\* os.path.join(a, b) on POSIX
pathjoin(a, b) ==
  IF startswith(b, <<SEP>>) THEN b
  ELSE IF a = <<>> \/ endswith(a, <<SEP>>) THEN a \o b
  ELSE a \o <<SEP>> \o b

DotDot == <<DOT, DOT>>

RECURSIVE NormComps(_, _, _)
\* The component loop of posixpath.normpath.
NormComps(comps, new, initial) ==
  IF comps = <<>> THEN new
  ELSE LET comp == Head(comps) IN
    IF comp = <<>> \/ comp = <<DOT>> THEN NormComps(Tail(comps), new, initial)
    ELSE IF \/ comp # DotDot
            \/ (initial = 0 /\ new = <<>>)
            \/ (new # <<>> /\ new[Len(new)] = DotDot)
      THEN NormComps(Tail(comps), Append(new, comp), initial)
    ELSE IF new # <<>>
      THEN NormComps(Tail(comps), SubSeq(new, 1, Len(new) - 1), initial)
    ELSE NormComps(Tail(comps), new, initial)

\* os.path.normpath(path) on POSIX
normpath(path) ==
  IF path = <<>> THEN <<DOT>>
  ELSE
    LET initial ==
          IF ~startswith(path, <<SEP>>) THEN 0
          ELSE IF startswith(path, <<SEP, SEP>>) /\ ~startswith(path, <<SEP, SEP, SEP>>)
            THEN 2
          ELSE 1
        body == join(NormComps(split(path), <<>>, initial))
        full == IF initial = 2 THEN <<SEP, SEP>> \o body
                ELSE IF initial = 1 THEN <<SEP>> \o body
                ELSE body
    IN IF full = <<>> THEN <<DOT>> ELSE full

NL == "\n"
COLON == ":"
SP == " "

\* ------------------------------------------------------- the object store
\* What "git cat-file --batch" serves.  An object is a tree (a sequence of
\* records mode, name, id) or a blob (a text).  The ids are names, not hashes.
Rec(mode, name, sha) == [mode |-> mode, name |-> name, sha |-> sha]

\* The name of the k-th link of the symlink chain: c0 is a file, and ck is a
\* symlink whose target is c(k-1).
ChainName(k) == "c" \o ToString(k)
ChainSha(k) == "b_c" \o ToString(k)

\* Revision rc: the chain alone.
RootC ==
  [k \in 1..(ChainMax + 1) |->
     IF k = 1 THEN Rec("100755", <<ChainName(0)>>, ChainSha(0))
     ELSE Rec("120000", <<ChainName(k - 1)>>, ChainSha(k - 1))]

\* Revision r1: directories d and a, files f and d/f, and symlinks
\*   l -> d            loop -> loop     up -> ..
\*   abs -> /etc       slash -> /
\*   a/link -> ../../outside            a/root -> ..
\*   a/ping -> pong   a/pong -> ping
Root1 ==
  << Rec("40000", <<"d">>, "t_d"),
     Rec("100644", <<"f">>, "b_f"),
     Rec("40000", <<"a">>, "t_a"),
     Rec("120000", <<"l">>, "b_l"),
     Rec("120000", <<"loop">>, "b_loop"),
     Rec("120000", <<"up">>, "b_up"),
     Rec("120000", <<"abs">>, "b_abs"),
     Rec("120000", <<"slash">>, "b_slash") >>

Tree(data) == [type |-> "tree", data |-> data]
Blob(data) == [type |-> "blob", data |-> data]

FixedObjects ==
  [ t_root1 |-> Tree(Root1),
    t_empty |-> Tree(<<>>),
    t_chain |-> Tree(RootC),
    t_d     |-> Tree(<< Rec("100644", <<"f">>, "b_df") >>),
    t_a     |-> Tree(<< Rec("120000", <<"link">>, "b_link"),
                        Rec("120000", <<"root">>, "b_up"),
                        Rec("120000", <<"ping">>, "b_ping"),
                        Rec("120000", <<"pong">>, "b_pong") >>),
    b_f     |-> Blob(<<"bytes_f">>),
    b_df    |-> Blob(<<"bytes_df">>),
    b_l     |-> Blob(<<"d">>),
    b_loop  |-> Blob(<<"loop">>),
    b_up    |-> Blob(<<DOT, DOT>>),
    b_abs   |-> Blob(<<SEP, "etc">>),
    b_slash |-> Blob(<<SEP>>),
    b_link  |-> Blob(<<DOT, DOT, SEP, DOT, DOT, SEP, "outside">>),
    b_ping  |-> Blob(<<"pong">>),
    b_pong  |-> Blob(<<"ping">>),
    b_text  |-> Blob(<<"one", NL, "two">>) ]

ChainObjects ==
  [sha \in {ChainSha(k) : k \in 0..ChainMax} |->
     LET k == CHOOSE j \in 0..ChainMax : sha = ChainSha(j)
     IN IF k = 0 THEN Blob(<<"bytes_c0">>) ELSE Blob(<<ChainName(k - 1)>>)]

\* Every object of the store, by id.
Objects == FixedObjects @@ ChainObjects

HasObject(sha) == sha \in DOMAIN Objects

Object(sha) == Objects[sha]

\* The revisions the store can resolve, each with the id of its root tree.
\* r0 is an empty commit.  Any other revision name (such as "nosuch") is
\* unknown to the store.
Commits == [r1 |-> "t_root1", r0 |-> "t_empty", rc |-> "t_chain"]

\* The real filesystem outside the repository: path -> bytes.
RealFiles ==
  [p \in { <<DOT, DOT, SEP, "outside">>, <<SEP, "etc">> } |->
     IF p = <<SEP, "etc">> THEN <<"bytes_etc">> ELSE <<"bytes_outside">>]

RECURSIVE GitWalk(_, _)
\* git's own lookup of the path of "<rev>:<path>": one tree entry per
\* component, symlinks not followed.  The id found, or "" when there is none.
GitWalk(sha, comps) ==
  IF comps = <<>> THEN sha
  ELSE IF Object(sha).type # "tree" THEN ""
  ELSE LET data == Object(sha).data
           hits == {i \in 1..Len(data) : data[i].name = Head(comps)}
       IN IF hits = {} THEN ""
          ELSE GitWalk(data[CHOOSE i \in hits : TRUE].sha, Tail(comps))

\* The id the store finds for a request line (without its newline), or "".
GitResolve(name) ==
  IF Len(name) >= 2 /\ name[2] = COLON
    THEN LET rev == name[1]
             path == SubSeq(name, 3, Len(name))
         IN IF rev \notin DOMAIN Commits THEN ""
            ELSE GitWalk(Commits[rev], IF path = <<>> THEN <<>> ELSE split(path))
  ELSE IF Len(name) = 1 /\ HasObject(name[1]) THEN name[1]
  ELSE ""

\* The response to a request naming the object sha ("" for no object): the
\* header line "<id> <type> <length>\n" followed by the content and a newline,
\* or the header line "<name> missing\n".
Response(name, sha) ==
  IF sha = ""
    THEN [header |-> name \o <<SP, "missing", NL>>, body |-> <<>>, tail |-> <<>>]
    ELSE [header |-> <<sha, SP, Object(sha).type, SP,
                       ToString(Len(Object(sha).data)), NL>>,
          body |-> Object(sha).data,
          tail |-> <<NL>>]

\* What cat-file --batch answers to one request line.
CatFile(line) ==
  Response(SubSeq(line, 1, Len(line) - 1), GitResolve(SubSeq(line, 1, Len(line) - 1)))

\* ---------------------------------------------------------- the resolver
None == "None"

\* What a call ends with: a returned value or a raised exception.  "via"
\* names the return or raise statement taken ("fetch": raised inside
\* _read_object_from_repo); an exception carries the rev and relpath it was
\* constructed with.
Return(val, via) ==
  [kind |-> "return", none |-> FALSE, val |-> val, via |-> via,
   exc |-> "", rev |-> "", relpath |-> <<>>]
ReturnNone ==
  [kind |-> "return", none |-> TRUE, val |-> <<>>, via |-> "end",
   exc |-> "", rev |-> "", relpath |-> <<>>]
Raise(exc, rev, relpath, via) ==
  [kind |-> "raise", none |-> FALSE, val |-> <<>>, via |-> via,
   exc |-> exc, rev |-> rev, relpath |-> relpath]

\* str.rstrip(): trailing newlines and spaces removed.
RECURSIVE rstrip(_)
rstrip(s) ==
  IF s # <<>> /\ s[Len(s)] \in {NL, SP} THEN rstrip(SubSeq(s, 1, Len(s) - 1)) ELSE s

\* str.rsplit(' ', 2): split at the last two spaces, if there are that many.
rsplit2(s) ==
  LET sps == {i \in 1..Len(s) : s[i] = SP}
      Max(S) == CHOOSE i \in S : \A j \in S : j <= i
  IN IF sps = {} THEN <<s>>
     ELSE LET k2 == Max(sps) IN
       IF sps = {k2} THEN <<SubSeq(s, 1, k2 - 1), SubSeq(s, k2 + 1, Len(s))>>
       ELSE LET k1 == Max(sps \ {k2})
            IN <<SubSeq(s, 1, k1 - 1), SubSeq(s, k1 + 1, k2 - 1),
                 SubSeq(s, k2 + 1, Len(s))>>

\* int(text): the number a decimal text denotes, or -1 for none (ValueError).
Decimals == [d \in {ToString(n) : n \in 0..(ChainMax + 1)} |->
               CHOOSE n \in 0..(ChainMax + 1) : d = ToString(n)]
int(t) ==
  IF Len(t) = 1 /\ t[1] \in DOMAIN Decimals THEN Decimals[t[1]] ELSE 0 - 1

\* The request line _read_object_from_repo writes (git.py:487-492).
RequestLine(rev, relpath, sha) ==
  IF sha # None THEN <<sha, NL>>
  ELSE <<rev, COLON>> \o relpath \o <<NL>>

Fetched(exc, rev, relpath, type, data, line) ==
  [exc |-> exc, rev |-> rev, relpath |-> relpath,
   type |-> type, data |-> data, line |-> line]

\* The content read after a 3-field header: object_len bytes, then the
\* newline (git.py:507-515).
ReadBody(rev, relpath, spec, reply, object_type, object_len) ==
  IF object_len < 0 THEN Fetched("ValueError", rev, relpath, "", <<>>, spec)
  ELSE IF reply.tail # <<NL>> \/ Len(reply.body) # object_len
    THEN Fetched("AssertionError", rev, relpath, "", <<>>, spec)
  ELSE Fetched("", rev, relpath, object_type, reply.body, spec)

\* The header line, split (git.py:501-507).
ParseHeader(rev, relpath, spec, reply, parts) ==
  IF Len(parts) = 2
    THEN IF parts[2] = <<"missing">>
           THEN Fetched("MissingFileException", rev, relpath, "", <<>>, spec)
           ELSE Fetched("AssertionError", rev, relpath, "", <<>>, spec)
  ELSE IF Len(parts) # 3 \/ Len(parts[2]) # 1
    THEN Fetched("ValueError", rev, relpath, "", <<>>, spec)
  ELSE ReadBody(rev, relpath, spec, reply, parts[2][1], int(parts[3]))

\* The request written and its response read (git.py:493-515), with the
\* subprocess alive and one caller.
Exchange(rev, relpath, spec, reply) ==
  ParseHeader(rev, relpath, spec, reply, rsplit2(rstrip(reply.header)))

WriteRequest(rev, relpath, spec) == Exchange(rev, relpath, spec, CatFile(spec))

\* _read_object_from_repo(rev, relpath, sha) (git.py:483-515)
ReadObjectFromRepo(rev, relpath, sha) ==
  WriteRequest(rev, relpath, RequestLine(rev, relpath, sha))

\* A symlink's record taken for a file's.
EntryKindNoSymlink(mode) == IF mode = "40000" THEN "Dir" ELSE "File"

\* The entry class a tree record's mode selects (git.py:474-479).
EntryKind(mode) ==
  IF mode = "120000" THEN "Symlink"
  ELSE IF mode = "40000" THEN "Dir"
  ELSE "File"

Entry(kind, name, sha) == [kind |-> kind, name |-> name, sha |-> sha]

EmptyTree == [n \in {} |-> Entry("File", <<>>, "")]

RECURSIVE DecodeTree(_, _)
\* The decoding loop of _read_tree: one entry per record, keyed by its name,
\* a later record replacing an earlier one of the same name.
DecodeTree(tree_data, tree) ==
  IF tree_data = <<>> THEN tree
  ELSE LET r == Head(tree_data)
           e == Entry(EntryKind(r.mode), r.name, r.sha)
       IN DecodeTree(Tail(tree_data), (r.name :> e) @@ tree)

\* The tree stored under its revision alone.
CacheKeyNoPath(rev, path) == <<rev, <<>>>>

\* The key _read_tree stores a decoded tree under.
CacheKey(rev, path) == <<rev, path>>

\* self._trees[rev].get(path), truthy: a stored tree that is not empty.
CacheHit(trees, rev, path) ==
  /\ <<rev, path>> \in DOMAIN trees
  /\ DOMAIN trees[<<rev, path>>] # {}

TreeRead(exc, rev, relpath, tree, trees, written) ==
  [exc |-> exc, rev |-> rev, relpath |-> relpath, tree |-> tree,
   trees |-> trees, written |-> written]

\* The decoded tree, stored and returned (git.py:480-481).
StoreTree(trees, written, rev, path, tree) ==
  TreeRead("", "", <<>>, tree, (CacheKey(rev, path) :> tree) @@ trees, written)

\* _read_tree after a miss: the object fetched, checked and decoded
\* (git.py:457-481).
FetchTree(trees, written, rev, path, ro) ==
  IF ro.exc # ""
    THEN TreeRead(ro.exc, ro.rev, ro.relpath, EmptyTree, trees, Append(written, ro.line))
  ELSE IF ro.type # "tree"
    THEN TreeRead("AssertionError", rev, path, EmptyTree, trees, Append(written, ro.line))
  ELSE StoreTree(trees, Append(written, ro.line), rev, path,
                 DecodeTree(ro.data, EmptyTree))

\* _read_tree(rev, path): the cached tree, or the tree fetched from the store,
\* decoded and stored.  trees and written are the cache and the request lines
\* written so far; both are returned as the call leaves them.
ReadTree(trees, written, rev, path) ==
  IF CacheHit(trees, rev, path)
    THEN TreeRead("", "", <<>>, trees[<<rev, path>>], trees, written)
    ELSE FetchTree(trees, written, rev, path, ReadObjectFromRepo(rev, path, None))

\* The bound tested one hop early.
TooManySymlinksOffByOne(symlinks) == symlinks >= MaxSymlinks

\* The bound tested one hop late.
TooManySymlinksLate(symlinks) == symlinks > MaxSymlinks + 1

\* git.py:428
TooManySymlinks(symlinks) == symlinks > MaxSymlinks

\* git.py:436: the link points outside the repository.
PointsOutside(link_to) ==
  startswith(link_to, <<DOT, DOT, SEP>>) \/ link_to[1] = SEP

\* The state of the while loop of _realpath: its local variables, the cache and
\* the request lines written so far, and, once the loop has ended, its outcome.
LoopState(components, path_so_far, symlinks, trees, written) ==
  [done |-> FALSE, out |-> ReturnNone, components |-> components,
   path_so_far |-> path_so_far, symlinks |-> symlinks,
   trees |-> trees, written |-> written]

Done(out, trees, written) ==
  [done |-> TRUE, out |-> out, components |-> <<>>, path_so_far |-> <<>>,
   symlinks |-> 0, trees |-> trees, written |-> written]

\* The symlink's target read from its blob (git.py:432-443).
FollowSymlink(rev, relpath, st, rest, trees, ro) ==
  IF ro.exc # ""
    THEN Done(Raise(ro.exc, ro.rev, ro.relpath, "fetch"), trees,
              Append(st.written, ro.line))
  ELSE IF ro.type # "blob"
    THEN Done(Raise("AssertionError", rev, relpath, "assert"), trees,
              Append(st.written, ro.line))
  ELSE
    LET link_to == normpath(pathjoin(st.path_so_far, ro.data)) IN
    IF PointsOutside(link_to)
      THEN Done(Return(link_to, "escape"), trees, Append(st.written, ro.line))
      ELSE LoopState(split(link_to) \o rest, <<>>, st.symlinks + 1,
                     trees, Append(st.written, ro.line))

\* The entry found for the component (git.py:415-446).  path is path_so_far
\* with the component appended.
Dispatch(rev, relpath, st, rest, path, obj, trees) ==
  IF obj.kind = "File" THEN
    IF rest # <<>>
      THEN Done(Raise("NotADirException", rev, relpath, "file"), trees, st.written)
      ELSE Done(Return(path, "file"), trees, st.written)
  ELSE IF obj.kind = "Dir" THEN
    IF rest = <<>>
      THEN Done(Return(path \o <<SEP>>, "dir"), trees, st.written)
      ELSE LoopState(rest, path, st.symlinks, trees, st.written)
  ELSE IF obj.kind = "Symlink" THEN
    IF TooManySymlinks(st.symlinks + 1)
      THEN Done(Raise("SymlinkLoopException", rev, relpath, "symlinks"), trees, st.written)
      ELSE FollowSymlink(rev, relpath, st, rest, trees,
                         ReadObjectFromRepo(None, NoneText, obj.sha))
  ELSE Done(Raise("AssertionError", rev, relpath, "assert"), trees, st.written)

\* The component looked up in its parent's tree (git.py:403-413).  st is the
\* loop state with the requests of the tree's fetch added.
Lookup(rev, relpath, st, component, rest, rt) ==
  IF rt.exc # "" THEN Done(Raise(rt.exc, rt.rev, rt.relpath, "fetch"), rt.trees, st.written)
  ELSE IF component \notin DOMAIN rt.tree
    THEN Done(Raise("MissingFileException", rev, relpath, "keyerror"), rt.trees, st.written)
  ELSE Dispatch(rev, relpath, st, rest,
                (IF st.path_so_far # <<>> THEN st.path_so_far \o <<SEP>> ELSE <<>>)
                  \o component,
                rt.tree[component], rt.trees)

Visit(rev, relpath, st, rt) ==
  Lookup(rev, relpath, [st EXCEPT !.written = rt.written],
         Head(st.components), Tail(st.components), rt)

\* One test of the loop condition and, when it holds, one pass through the
\* body of the while loop of _realpath (git.py:398-446).
RealpathStep(rev, relpath, st) ==
  IF st.components = <<>> THEN Done(ReturnNone, st.trees, st.written)
  ELSE IF Head(st.components) = <<>>
    THEN LoopState(Tail(st.components), st.path_so_far, st.symlinks,
                   st.trees, st.written)
  ELSE Visit(rev, relpath, st, ReadTree(st.trees, st.written, rev, st.path_so_far))

RECURSIVE RealpathLoop(_, _, _)
\* The while loop of _realpath, run to its end.
RealpathLoop(rev, relpath, st) ==
  IF st.done THEN st ELSE RealpathLoop(rev, relpath, RealpathStep(rev, relpath, st))

\* _realpath(rev, relpath) (git.py:381-446)
Realpath(trees, written, rev, relpath) ==
  IF relpath = <<DOT>> \/ relpath = <<>>
    THEN Done(Return(<<SEP>>, "root"), trees, written)
    ELSE RealpathLoop(rev, relpath, LoopState(split(relpath), <<>>, 0, trees, written))

\* ------------------------------------------------------ public operations
\* What a public call ends with.  kind is "return", "raise" or "yield" (open
\* handing a stream to the caller's with-block); bool, names, data and src are
\* the value returned or the stream yielded.
Outcome(kind) ==
  [kind |-> kind, exc |-> "", rev |-> "", relpath |-> <<>>,
   bool |-> FALSE, val |-> <<>>, none |-> FALSE, names |-> {},
   data |-> <<>>, src |-> ""]
ReturnBool(b) == [Outcome("return") EXCEPT !.bool = b]
Raised(exc, rev, relpath) ==
  [Outcome("raise") EXCEPT !.exc = exc, !.rev = rev, !.relpath = relpath]
Reraise(out) == Raised(out.exc, out.rev, out.relpath)
Yield(src, data) == [Outcome("yield") EXCEPT !.src = src, !.data = data]

\* Every failure of _realpath turned into False.
SwallowedAll == {"MissingFileException", "NotADirException", "SymlinkLoopException"}

\* The exceptions exists, isfile and isdir turn into False (git.py:305-308).
Swallowed == {"MissingFileException", "NotADirException"}

Call(out, r, trees, written) ==
  [out |-> out, resolved |-> r, trees |-> trees, written |-> written]

ExistsOf(rp) ==
  Call(IF rp.out.kind = "raise"
         THEN IF rp.out.exc \in Swallowed THEN ReturnBool(FALSE) ELSE Reraise(rp.out)
         ELSE ReturnBool(TRUE),
       rp.out, rp.trees, rp.written)

\* exists(rev, relpath) (git.py:301-308)
exists(trees, rev, relpath) == ExistsOf(Realpath(trees, <<>>, rev, relpath))

IsfileOf(rp) ==
  Call(IF rp.out.kind = "raise"
         THEN IF rp.out.exc \in Swallowed THEN ReturnBool(FALSE) ELSE Reraise(rp.out)
       ELSE IF rp.out.none THEN Raised("AttributeError", "", <<>>)
       ELSE ReturnBool(~endswith(rp.out.val, <<SEP>>)),
       rp.out, rp.trees, rp.written)

\* isfile(rev, relpath) (git.py:310-317)
isfile(trees, rev, relpath) == IsfileOf(Realpath(trees, <<>>, rev, relpath))

IsdirOf(rp) ==
  Call(IF rp.out.kind = "raise"
         THEN IF rp.out.exc \in Swallowed THEN ReturnBool(FALSE) ELSE Reraise(rp.out)
       ELSE IF rp.out.none THEN Raised("AttributeError", "", <<>>)
       ELSE ReturnBool(endswith(rp.out.val, <<SEP>>)),
       rp.out, rp.trees, rp.written)

\* isdir(rev, relpath) (git.py:319-326)
isdir(trees, rev, relpath) == IsdirOf(Realpath(trees, <<>>, rev, relpath))

ResolveOf(rp) ==
  Call(IF rp.out.kind = "raise" THEN Reraise(rp.out)
       ELSE [Outcome("return") EXCEPT !.val = rp.out.val, !.none = rp.out.none],
       rp.out, rp.trees, rp.written)

\* _realpath called on its own: the resolver's contract.
resolve(trees, rev, relpath) == ResolveOf(Realpath(trees, <<>>, rev, relpath))

\* tree.keys() of the tree read (git.py:353-354)
ListdirKeys(rp, rt) ==
  IF rt.exc # ""
    THEN Call(Raised(rt.exc, rt.rev, rt.relpath), rp.out, rt.trees, rt.written)
    ELSE Call([Outcome("return") EXCEPT !.names = DOMAIN rt.tree],
              rp.out, rt.trees, rt.written)

ListdirOf(rev, relpath, rp) ==
  IF rp.out.kind = "raise" THEN Call(Reraise(rp.out), rp.out, rp.trees, rp.written)
  ELSE IF rp.out.none
    THEN Call(Raised("AttributeError", "", <<>>), rp.out, rp.trees, rp.written)
  ELSE IF ~endswith(rp.out.val, <<SEP>>)
    THEN Call(Raised("NotADirException", rev, relpath), rp.out, rp.trees, rp.written)
  ELSE ListdirKeys(rp, ReadTree(rp.trees, rp.written, rev,
                                SubSeq(rp.out.val, 1, Len(rp.out.val) - 1)))

\* listdir(rev, relpath) (git.py:343-354)
listdir(trees, rev, relpath) ==
  ListdirOf(rev, relpath, Realpath(trees, <<>>, rev, relpath))

\* git.py:372: the resolved path is one of the real filesystem.
IsEscape(path) == startswith(path, <<DOT, DOT, SEP>>) \/ path[1] = SEP

\* The caller's path asked for instead of the resolved one.
OpenFetchRelpath(relpath, path) == relpath

\* The path open asks the store for (git.py:375).
OpenFetchPath(relpath, path) == path

Fetch(out, written) == [out |-> out, written |-> written]

OpenFetched(rev, relpath, written, ro) ==
  IF ro.exc # "" THEN Fetch(Raised(ro.exc, ro.rev, ro.relpath), Append(written, ro.line))
  ELSE IF ro.type = "tree"
    THEN Fetch(Raised("IsDirException", rev, relpath), Append(written, ro.line))
  ELSE IF ro.type # "blob"
    THEN Fetch(Raised("AssertionError", "", <<>>), Append(written, ro.line))
  ELSE Fetch(Yield("store", ro.data), Append(written, ro.line))

\* The end of open (git.py:375-379): the blob fetched from the store and
\* yielded.  It follows the resolution of a repository path, and it follows
\* the yield of the real file when the caller's block ends.
OpenFromStore(rev, relpath, path, written) ==
  OpenFetched(rev, relpath, written,
              ReadObjectFromRepo(rev, OpenFetchPath(relpath, path), None))

OpenStore(rp, f) == Call(f.out, rp.out, rp.trees, f.written)

OpenOf(rev, relpath, rp) ==
  IF rp.out.kind = "raise" THEN Call(Reraise(rp.out), rp.out, rp.trees, rp.written)
  ELSE IF rp.out.none
    THEN Call(Raised("AttributeError", "", <<>>), rp.out, rp.trees, rp.written)
  ELSE IF endswith(rp.out.val, <<SEP>>)
    THEN Call(Raised("IsDirException", rev, relpath), rp.out, rp.trees, rp.written)
  ELSE IF IsEscape(rp.out.val)
    THEN IF rp.out.val \in DOMAIN RealFiles
           THEN Call(Yield("fs", RealFiles[rp.out.val]), rp.out, rp.trees, rp.written)
           ELSE Call(Raised("IOError", "", <<>>), rp.out, rp.trees, rp.written)
  ELSE OpenStore(rp, OpenFromStore(rev, relpath, rp.out.val, rp.written))

\* open(rev, relpath, mode) up to its first yield or its failure (git.py:365-379).
open(trees, rev, relpath, mode) ==
  IF mode # "rb"
    THEN Call(Raised("BadModeException", rev, relpath), ReturnNone, trees, <<>>)
    ELSE OpenOf(rev, relpath, Realpath(trees, <<>>, rev, relpath))

\* ------------------------------------------------------------ the inputs
ChainPaths == { <<ChainName(k)>> : k \in 0..ChainMax }

Paths1 ==
  { <<>>, <<DOT>>, <<"d">>, <<"d", SEP>>, <<"d", SEP, "f">>, <<"d", SEP, SEP, "f">>,
    <<"f">>, <<"f", SEP, "x">>, <<"nope">>, <<"l">>, <<"l", SEP, "f">>,
    <<"loop">>, <<"up">>, <<"abs">>, <<"slash">>, <<"a", SEP, "link">>,
    <<"a", SEP, "root">> }

\* The paths asked of the empty revision and of an unknown revision.
Paths0 == { <<>>, <<"d">> }

\* The calls the callers make: a revision and a relative path.
Inputs == ({"r1"} \X Paths1) \cup ({"r0", "nosuch"} \X Paths0)

\* The calls that walk the chain of revision rc.
ChainInputs == {"rc"} \X ChainPaths

Modes == {"rb", "r"}

\* The calls made with a mode open does not support.
BadModeInputs == {<<"r1", <<"f">>>>}

\* ------------------------------------------------------------- the state
VARIABLES
  trees,     \* self._trees: (rev, path) -> decoded tree
  started,   \* self._cat_file_process is set
  written,   \* the request lines the last step wrote to the subprocess
  last,      \* the last call made and what it ended with
  scope,     \* the with-block an open call has yielded into, if any
  streams,   \* the streams the last call has opened and not closed
  returncode,\* Popen.returncode of the subprocess: what poll() returns
  stdin,     \* the request lines written to the subprocess and not yet read by it
  stdout,    \* the bytes the subprocess has written and no caller has read yet
  fetch,     \* each caller's position in _read_object_from_repo, and its locals
  lock,      \* the lock the callers wrap their calls in, if they use one
  calls,     \* each caller: the public calls it has made, and whether it is in one
  wire,      \* whose request each line and each byte in the pipe belongs to
  walk,      \* a call of _realpath taken one pass of its loop at a time
  decoding   \* a tree buffer, and what decoding it has ended with

\* The resolver as its callers see it, and the pipe to the subprocess.
api == <<trees, started, written, last, scope, streams>>
pipe == <<returncode, stdin, stdout, fetch, lock, calls, wire>>

vars == <<trees, started, written, last, scope, streams,
          returncode, stdin, stdout, fetch, lock, calls, wire, walk, decoding>>

NoTrees == [k \in {} |-> EmptyTree]

NoScope == [active |-> FALSE, rev |-> "", relpath |-> <<>>, path |-> <<>>, src |-> ""]

\* The callers of one resolver instance.
Callers == {"a", "b"}

\* What a call of _read_object_from_repo has ended with, if it has ended.
FetchOut(kind, exc, rev, relpath) ==
  [kind |-> kind, exc |-> exc, rev |-> rev, relpath |-> relpath]

\* The locals of a call of _read_object_from_repo.  pc is the statement the
\* caller is at ("idle": in no call); got is every byte the call has read. 
Idle ==
  [pc |-> "idle", rev |-> "", relpath |-> <<>>, sha |-> None, spec |-> <<>>,
   header |-> <<>>, object_type |-> "", object_len |-> 0, blob |-> <<>>,
   got |-> <<>>, out |-> FetchOut("", "", "", <<>>)]

\* The resolver just constructed.  In Spec and SpecChain a request and its
\* response are one step (Exchange), and the pipe stays as it is here.
\* No call of _realpath under way.
NoWalk == [rev |-> "", relpath |-> <<>>, st |-> Done(ReturnNone, NoTrees, <<>>)]

\* No buffer to decode.
NoDecoding ==
  [records |-> <<>>, tree_data |-> <<>>, done |-> TRUE, exc |-> "", tree |-> EmptyTree]

\* No lock around the calls, as the class itself has none.
NoLock == [used |-> FALSE, holder |-> None]

\* No caller in a public call.
NoCalls == [c \in Callers |-> [n |-> 0, inside |-> FALSE]]

\* Nothing in the pipe, and nothing read from it.  asked names the caller of
\* each line of stdin, unread the caller whose request each byte of stdout
\* answers, and got[c] the callers whose answers c has read bytes of in its
\* call of _read_object_from_repo.
NoWire == [asked |-> <<>>, unread |-> <<>>, got |-> [c \in Callers |-> {}]]

\* The subprocess running, nothing written to it and nothing to read.
PipeStarted ==
  /\ returncode = None
  /\ stdin = <<>>
  /\ stdout = <<>>
  /\ fetch = [c \in Callers |-> Idle]
  /\ lock = NoLock
  /\ calls = NoCalls
  /\ wire = NoWire

Init ==
  /\ PipeStarted
  /\ walk = NoWalk
  /\ decoding = NoDecoding
  /\ trees = NoTrees
  /\ started = FALSE
  /\ written = <<>>
  /\ last = [op |-> "init", rev |-> "", relpath |-> <<>>, mode |-> "",
             out |-> Outcome("return"), resolved |-> ReturnNone]
  /\ scope = NoScope
  /\ streams = {}

\* A call that runs _realpath and ends before the caller does anything else.
Finish(op, rev, relpath, c) ==
  /\ trees' = c.trees
  /\ started' = TRUE
  /\ written' = c.written
  /\ last' = [op |-> op, rev |-> rev, relpath |-> relpath, mode |-> "",
              out |-> c.out, resolved |-> c.resolved]
  /\ scope' = scope
  /\ streams' = {}
  /\ UNCHANGED <<pipe, walk, decoding>>

Exists ==
  /\ ~scope.active
  /\ \E i \in Inputs : Finish("exists", i[1], i[2], exists(trees, i[1], i[2]))

Isfile ==
  /\ ~scope.active
  /\ \E i \in Inputs : Finish("isfile", i[1], i[2], isfile(trees, i[1], i[2]))

Isdir ==
  /\ ~scope.active
  /\ \E i \in Inputs : Finish("isdir", i[1], i[2], isdir(trees, i[1], i[2]))

Resolve ==
  /\ ~scope.active
  /\ \E i \in Inputs : Finish("resolve", i[1], i[2], resolve(trees, i[1], i[2]))

Listdir ==
  /\ ~scope.active
  /\ \E i \in Inputs : Finish("listdir", i[1], i[2], listdir(trees, i[1], i[2]))

\* The stream a yield of open has handed out: the file open(path, mode) has
\* opened (git.py:373) or the StringIO made of the blob (git.py:379).
Acquired(out) == IF out.kind = "yield" THEN {out.src} ELSE {}

Enter(rev, relpath, mode, c) ==
  /\ trees' = c.trees
  /\ started' = (started \/ mode = "rb")
  /\ written' = c.written
  /\ last' = [op |-> "open", rev |-> rev, relpath |-> relpath, mode |-> mode,
              out |-> c.out, resolved |-> c.resolved]
  /\ scope' = IF c.out.kind = "yield"
                THEN [active |-> TRUE, rev |-> rev, relpath |-> relpath,
                      path |-> c.resolved.val, src |-> c.out.src]
                ELSE scope
  /\ streams' = Acquired(c.out)
  /\ UNCHANGED <<pipe, walk, decoding>>

\* "with git.open(rev, relpath, mode) as f": the generator runs to its first
\* yield, and the caller's block starts, or to its failure.
OpenEnter ==
  /\ ~scope.active
  /\ \E mode \in Modes : \E i \in (IF mode = "rb" THEN Inputs ELSE BadModeInputs) :
       Enter(i[1], i[2], mode, open(trees, i[1], i[2], mode))

\* The generator resumed after its yield: it stops, or fails, or yields
\* again, which contextmanager reports as a RuntimeError.  open has no
\* try/finally around its yields and calls close on nothing: the streams it
\* has opened stay as they are.
Resumed(f) ==
  /\ written' = f.written
  /\ last' = [last EXCEPT !.op = "open_exit",
                          !.out = IF f.out.kind = "yield"
                                    THEN Raised("RuntimeError", "", <<>>)
                                    ELSE f.out]
  /\ streams' = streams \cup Acquired(f.out)

\* The caller's block ends normally: contextmanager resumes the generator,
\* which must stop.  After the yield of the real file (git.py:373) it runs on
\* into the fetch from the store (git.py:375-379).
OpenExit ==
  /\ scope.active
  /\ Resumed(IF scope.src = "fs"
               THEN OpenFromStore(scope.rev, scope.relpath, scope.path, <<>>)
               ELSE Fetch(Outcome("return"), <<>>))
  /\ scope' = NoScope
  /\ UNCHANGED <<trees, started>>
  /\ UNCHANGED <<pipe, walk, decoding>>

\* The caller's block raises: contextmanager throws the exception into the
\* generator at its yield, and it leaves the generator and the with statement.
OpenRaise ==
  /\ scope.active
  /\ written' = <<>>
  /\ last' = [last EXCEPT !.op = "open_raise", !.out = Raised("BodyError", "", <<>>)]
  /\ scope' = NoScope
  /\ UNCHANGED <<trees, started, streams>>
  /\ UNCHANGED <<pipe, walk, decoding>>

Next ==
  \/ Exists
  \/ Isfile
  \/ Isdir
  \/ Resolve
  \/ Listdir
  \/ OpenEnter
  \/ OpenExit
  \/ OpenRaise

Spec == Init /\ [][Next]_vars

\* ------------------------------------------- the walk of the symlink chain
ResolveChain ==
  /\ ~scope.active
  /\ \E i \in ChainInputs : Finish("resolve", i[1], i[2], resolve(trees, i[1], i[2]))

ExistsChain ==
  /\ ~scope.active
  /\ \E i \in ChainInputs : Finish("exists", i[1], i[2], exists(trees, i[1], i[2]))

NextChain ==
  \/ ResolveChain
  \/ ExistsChain

SpecChain == Init /\ [][NextChain]_vars

\* --------------------------------------- the pipe to cat-file, read by read
\* Every byte of a response, in the order the subprocess writes them.
Flatten(reply) == reply.header \o reply.body \o reply.tail

Newlines(buf) == {i \in 1..Len(buf) : buf[i] = NL}

\* The line taken without its newline, which stays in the pipe.
readlineKeepsNewline(buf) ==
  IF Newlines(buf) = {} THEN Len(buf)
  ELSE (CHOOSE i \in Newlines(buf) : \A j \in Newlines(buf) : i <= j) - 1

\* stdout.readline() (git.py:497): how many bytes it takes, the first newline
\* included, or all there is when the pipe has ended without one.
readline(buf) ==
  IF Newlines(buf) = {} THEN Len(buf)
  ELSE CHOOSE i \in Newlines(buf) : \A j \in Newlines(buf) : i <= j

\* A read that returns one byte short of a body of several bytes.
readShort(buf, n) ==
  IF Len(buf) < n THEN Len(buf) ELSE IF n > 1 THEN n - 1 ELSE n

\* stdout.read(n) on a pipe that holds buf: how many bytes it takes.
read(buf, n) == IF Len(buf) < n THEN Len(buf) ELSE n

\* git.py:498  "if self._cat_file_process.poll():"  None and 0 are false.
Truthy(code) == code \notin {None, "0"}

\* The status a subprocess that has ended leaves in returncode.
ExitCodes == {"0", "1"}

\* The calls of _read_object_from_repo: rev, relpath and sha.  They ask for
\* blobs, for the empty tree and for objects the store does not have.
FetchInputs ==
  { <<"r1", <<"d", SEP, "f">>, None>>,
    <<"r1", <<"nope">>, None>>,
    <<"r1", <<"a", SP, "b">>, None>>,
    <<"r0", <<>>, None>>,
    <<"nosuch", <<>>, None>>,
    <<None, NoneText, "b_link">>,
    <<None, NoneText, "b_text">>,
    <<None, NoneText, "b_none">> }

\* The call ended by a return or a raise.
Ended(f, out) == [f EXCEPT !.pc = "idle", !.out = out]

Returned(f) == Ended(f, FetchOut("return", "", "", <<>>))

Failed(f, exc) == Ended(f, FetchOut("raise", exc, f.rev, f.relpath))

\* The resolver started, as _maybe_start_cat_file_process leaves it.
InitPipe ==
  /\ trees = NoTrees
  /\ started = TRUE
  /\ written = <<>>
  /\ last = [op |-> "init", rev |-> "", relpath |-> <<>>, mode |-> "",
             out |-> Outcome("return"), resolved |-> ReturnNone]
  /\ scope = NoScope
  /\ streams = {}
  /\ PipeStarted
  /\ walk = NoWalk
  /\ decoding = NoDecoding

Set(c, f) == fetch' = [fetch EXCEPT ![c] = f]

\* The caller's request line joins the lines the subprocess has to read.
Asked(c) == [wire EXCEPT !.asked = Append(@, c), !.got[c] = {}]

\* The caller takes the first n bytes of stdout, whoever they answer.
Taken(c, n) ==
  [wire EXCEPT !.unread = SubSeq(@, n + 1, Len(@)),
               !.got[c] = @ \cup {wire.unread[i] : i \in 1..n}]

\* The subprocess answers the first line of stdin with n bytes.
Answered(n) ==
  [wire EXCEPT !.asked = Tail(@),
               !.unread = @ \o [i \in 1..n |-> Head(wire.asked)]]

\* git.py:487-495: the request line made, written and flushed.  A write to
\* the pipe of a subprocess that has ended fails with IOError.
Write(c) ==
  /\ fetch[c].pc = "idle"
  /\ \E i \in FetchInputs :
       LET f == [Idle EXCEPT !.rev = i[1], !.relpath = i[2], !.sha = i[3],
                             !.spec = RequestLine(i[1], i[2], i[3])]
       IN IF returncode # None
            THEN Set(c, Failed(f, "IOError")) /\ stdin' = stdin
            ELSE Set(c, [f EXCEPT !.pc = "readline"]) /\ stdin' = Append(stdin, f.spec)
  /\ wire' = IF returncode # None THEN [wire EXCEPT !.got[c] = {}] ELSE Asked(c)
  /\ UNCHANGED <<returncode, stdout>>
  /\ UNCHANGED <<api, lock, calls, walk, decoding>>

\* git.py:497: header = stdout.readline().  It waits for a whole line while
\* the subprocess runs, and returns what is left, '' at the end, once the
\* subprocess has ended.
ReadLine(c) ==
  /\ fetch[c].pc = "readline"
  /\ Newlines(stdout) # {} \/ returncode # None
  /\ Set(c, [fetch[c] EXCEPT !.pc = "poll",
                             !.header = SubSeq(stdout, 1, readline(stdout)),
                             !.got = @ \o SubSeq(stdout, 1, readline(stdout))])
  /\ stdout' = SubSeq(stdout, readline(stdout) + 1, Len(stdout))
  /\ wire' = Taken(c, readline(stdout))
  /\ UNCHANGED <<returncode, stdin>>
  /\ UNCHANGED <<api, lock, calls, walk, decoding>>

\* git.py:496-500: the exit status polled, and the loop condition tested.
Poll(c) ==
  /\ fetch[c].pc = "poll"
  /\ Set(c, [fetch[c] EXCEPT !.pc = IF Truthy(returncode) THEN "pdb"
                                    ELSE IF fetch[c].header = <<>> THEN "readline"
                                    ELSE "parse"])
  /\ UNCHANGED <<returncode, stdin, stdout, wire>>
  /\ UNCHANGED <<api, lock, calls, walk, decoding>>

\* git.py:499-500: pdb.set_trace() stops the caller in the debugger in front
\* of the raise.  Told to continue, the caller raises GitDiedException.
PdbContinue(c) ==
  /\ fetch[c].pc = "pdb"
  /\ Set(c, Failed(fetch[c], "GitDiedException"))
  /\ UNCHANGED <<returncode, stdin, stdout, wire>>
  /\ UNCHANGED <<api, lock, calls, walk, decoding>>

\* Told to quit, or at the end of its input, the debugger raises BdbQuit.
PdbQuit(c) ==
  /\ fetch[c].pc = "pdb"
  /\ Set(c, Failed(fetch[c], "BdbQuit"))
  /\ UNCHANGED <<returncode, stdin, stdout, wire>>
  /\ UNCHANGED <<api, lock, calls, walk, decoding>>

\* git.py:503-507: the fields of the header.
Parsed(f, parts) ==
  IF Len(parts) = 2
    THEN IF parts[2] = <<"missing">> THEN Failed(f, "MissingFileException")
         ELSE Failed(f, "AssertionError")
  ELSE IF Len(parts) # 3 \/ Len(parts[2]) # 1 \/ int(parts[Len(parts)]) < 0
    THEN Failed(f, "ValueError")
  ELSE [f EXCEPT !.pc = "read", !.object_type = parts[2][1],
                 !.object_len = int(parts[3])]

\* git.py:501-507, and int(object_len) of git.py:510
Parse(c) ==
  /\ fetch[c].pc = "parse"
  /\ Set(c, Parsed(fetch[c], rsplit2(rstrip(fetch[c].header))))
  /\ UNCHANGED <<returncode, stdin, stdout, wire>>
  /\ UNCHANGED <<api, lock, calls, walk, decoding>>

\* git.py:510: blob = stdout.read(object_len).  It waits for object_len
\* bytes while the subprocess runs.
ReadBlob(c) ==
  /\ fetch[c].pc = "read"
  /\ Len(stdout) >= fetch[c].object_len \/ returncode # None
  /\ Set(c, [fetch[c] EXCEPT !.pc = "newline",
                             !.blob = SubSeq(stdout, 1, read(stdout, fetch[c].object_len)),
                             !.got = @ \o SubSeq(stdout, 1, read(stdout, fetch[c].object_len))])
  /\ stdout' = SubSeq(stdout, read(stdout, fetch[c].object_len) + 1, Len(stdout))
  /\ wire' = Taken(c, read(stdout, fetch[c].object_len))
  /\ UNCHANGED <<returncode, stdin>>
  /\ UNCHANGED <<api, lock, calls, walk, decoding>>

\* git.py:513-515: the trailing newline read, both asserts, and the return.
ReadNewline(c) ==
  /\ fetch[c].pc = "newline"
  /\ Len(stdout) >= 1 \/ returncode # None
  /\ Set(c, IF SubSeq(stdout, 1, read(stdout, 1)) # <<NL>>
                 \/ Len(fetch[c].blob) # fetch[c].object_len
              THEN Failed([fetch[c] EXCEPT !.got = @ \o SubSeq(stdout, 1, read(stdout, 1))],
                          "AssertionError")
              ELSE Returned([fetch[c] EXCEPT !.got = @ \o <<NL>>]))
  /\ stdout' = SubSeq(stdout, read(stdout, 1) + 1, Len(stdout))
  /\ wire' = Taken(c, read(stdout, 1))
  /\ UNCHANGED <<returncode, stdin>>
  /\ UNCHANGED <<api, lock, calls, walk, decoding>>

\* cat-file --batch reads one request line and writes its response.
GitAnswer ==
  /\ returncode = None
  /\ stdin # <<>>
  /\ stdout' = stdout \o Flatten(CatFile(Head(stdin)))
  /\ stdin' = Tail(stdin)
  /\ wire' = Answered(Len(Flatten(CatFile(Head(stdin)))))
  /\ UNCHANGED <<returncode, fetch>>
  /\ UNCHANGED <<api, lock, calls, walk, decoding>>

\* The subprocess ends, with status 0 or with another.
GitExit ==
  /\ returncode = None
  /\ \E code \in ExitCodes : returncode' = code
  /\ UNCHANGED <<stdin, stdout, fetch, wire>>
  /\ UNCHANGED <<api, lock, calls, walk, decoding>>

\* One statement of the caller's call of _read_object_from_repo.
FetchStep(c) ==
  \/ Write(c)
  \/ ReadLine(c)
  \/ Poll(c)
  \/ PdbContinue(c)
  \/ PdbQuit(c)
  \/ Parse(c)
  \/ ReadBlob(c)
  \/ ReadNewline(c)

NextPipe ==
  \/ FetchStep("a")
  \/ GitAnswer
  \/ GitExit

\* One caller, fetch after fetch.  The caller's thread keeps running, and so
\* does the subprocess until it ends.
SpecPipe ==
  /\ InitPipe
  /\ [][NextPipe]_vars
  /\ WF_vars(FetchStep("a"))
  /\ WF_vars(GitAnswer)

\* ------------------------------------------- two callers of one resolver
\* The public calls each caller makes.
MaxCalls == 2

\* The request lines of the two callers: for a blob by id, and for a path the
\* revision does not have.
SharedRequests ==
  { RequestLine(None, NoneText, "b_text"),
    RequestLine("r1", <<"nope">>, None) }

\* The callers either wrap every call in one lock, or use none.
InitShared ==
  /\ trees = NoTrees
  /\ started = TRUE
  /\ written = <<>>
  /\ last = [op |-> "init", rev |-> "", relpath |-> <<>>, mode |-> "",
             out |-> Outcome("return"), resolved |-> ReturnNone]
  /\ scope = NoScope
  /\ streams = {}
  /\ returncode = None
  /\ stdin = <<>>
  /\ stdout = <<>>
  /\ fetch = [c \in Callers |-> Idle]
  /\ lock \in {[NoLock EXCEPT !.used = u] : u \in BOOLEAN}
  /\ calls = NoCalls
  /\ wire = NoWire
  /\ walk = NoWalk
  /\ decoding = NoDecoding

\* The caller enters a public call, with the lock once it is free where the
\* callers use one.
EnterCall(c) ==
  /\ ~calls[c].inside
  /\ calls[c].n < MaxCalls
  /\ lock.used => lock.holder = None
  /\ calls' = [calls EXCEPT ![c] = [n |-> @.n + 1, inside |-> TRUE]]
  /\ lock' = IF lock.used THEN [lock EXCEPT !.holder = c] ELSE lock
  /\ UNCHANGED <<returncode, stdin, stdout, fetch, wire>>
  /\ UNCHANGED <<api, walk, decoding>>

\* The public call ends, by a return or a raise: the locals of its fetch are
\* gone, and the lock is free again.
LeaveCall(c) ==
  /\ calls[c].inside
  /\ fetch[c].pc = "idle"
  /\ calls' = [calls EXCEPT ![c].inside = FALSE]
  /\ lock' = IF lock.used THEN [lock EXCEPT !.holder = None] ELSE lock
  /\ Set(c, Idle)
  /\ wire' = [wire EXCEPT !.got[c] = {}]
  /\ UNCHANGED <<returncode, stdin, stdout>>
  /\ UNCHANGED <<api, walk, decoding>>

\* One statement of the fetch the caller's public call makes.
SharedStep(c) ==
  /\ calls[c].inside
  /\ fetch[c].pc = "idle" => fetch[c] = Idle
  /\ FetchStep(c)
  /\ fetch'[c].spec \in SharedRequests

NextShared ==
  \/ \E c \in Callers : EnterCall(c)
  \/ \E c \in Callers : LeaveCall(c)
  \/ \E c \in Callers : SharedStep(c)
  \/ GitAnswer
  \/ GitExit

\* Two threads calling one resolver, each fetch after fetch.
SpecShared == InitShared /\ [][NextShared]_vars

\* ------------------------------------ _realpath, one pass of its loop a step
\* The calls walked: every path of r1, the two links of a cycle, and the chain
\* links that follow exactly MaxSymlinks and more than MaxSymlinks symlinks.
WalkInputs ==
  Inputs
    \cup ({"r1"} \X { <<"a", SEP, "ping">>, <<"a", SEP, "pong", SEP, "x">> })
    \cup ({"rc"} \X { <<ChainName(MaxSymlinks)>>, <<ChainName(ChainMax)>> })

\* git.py:388-396: _realpath up to the first test of its loop.
WalkStart(cache, rev, relpath) ==
  [rev |-> rev, relpath |-> relpath,
   st |-> IF relpath = <<DOT>> \/ relpath = <<>>
            THEN Done(Return(<<SEP>>, "root"), cache, <<>>)
            ELSE LoopState(split(relpath), <<>>, 0, cache, <<>>)]

InitWalk ==
  /\ trees = NoTrees
  /\ started = TRUE
  /\ written = <<>>
  /\ last = [op |-> "init", rev |-> "", relpath |-> <<>>, mode |-> "",
             out |-> Outcome("return"), resolved |-> ReturnNone]
  /\ scope = NoScope
  /\ streams = {}
  /\ PipeStarted
  /\ walk = NoWalk
  /\ decoding = NoDecoding

\* A caller calls _realpath; the cache is as the call before left it.
WalkCall ==
  /\ walk.st.done
  /\ \E i \in WalkInputs : walk' = WalkStart(walk.st.trees, i[1], i[2])
  /\ UNCHANGED <<api, pipe, decoding>>

\* One test of the loop condition and one pass through the loop's body.
WalkStep ==
  /\ ~walk.st.done
  /\ walk' = [walk EXCEPT !.st = RealpathStep(walk.rev, walk.relpath, walk.st)]
  /\ UNCHANGED <<api, pipe, decoding>>

NextWalk ==
  \/ WalkCall
  \/ WalkStep

\* The caller's thread keeps running: weak fairness of WalkStep, which is
\* enabled exactly while the call has not ended and changes walk whenever it
\* is taken, written as its two cases.
SpecWalk ==
  /\ InitWalk
  /\ [][NextWalk]_vars
  /\ ([]<>walk.st.done \/ []<><<WalkStep>>_vars)

\* ------------------------------------------- the tree decoder, byte by byte
\* A tree object as cat-file sends it: bytes, each a number 0..255, the
\* records (mode ' ' name '\0' 20-byte-sha) one after the other.  DecodeTree
\* above decodes a tree given as its records; TreeFromBytes is the same loop
\* over the bytes.

\* git.py:464  ' '
SpaceByte == 32

\* git.py:469  '\0'
NulByte == 0

\* git.py:472-473: the length of a raw sha.
ShaLen == 20

\* git.py:474  '120000'
SymlinkMode == <<49, 50, 48, 48, 48, 48>>

\* git.py:476  '40000'
DirMode == <<52, 48, 48, 48, 48>>

HexDigit ==
  <<"0", "1", "2", "3", "4", "5", "6", "7", "8", "9", "a", "b", "c", "d", "e", "f">>

RECURSIVE EncodeHex(_)
\* str.encode('hex'): two lower-case digits for every byte.
EncodeHex(bytes) ==
  IF bytes = <<>> THEN ""
  ELSE HexDigit[(Head(bytes) \div 16) + 1] \o HexDigit[(Head(bytes) % 16) + 1]
         \o EncodeHex(Tail(bytes))

\* tree_data[a:b] with 0 <= a <= b: the bytes at the offsets a..b-1 that exist.
Slice(tree_data, a, b) ==
  SubSeq(tree_data, a + 1, IF b > Len(tree_data) THEN Len(tree_data) ELSE b)

RECURSIVE ScanTo(_, _, _)
\* "while tree_data[i] != byte: i += 1": the offset the scan stops at, or -1
\* when it runs off the end of the buffer (IndexError).
ScanTo(tree_data, i, byte) ==
  IF i >= Len(tree_data) THEN 0 - 1
  ELSE IF tree_data[i + 1] = byte THEN i
  ELSE ScanTo(tree_data, i + 1, byte)

\* The directory's mode as git ls-tree prints it, '040000'.
ModeKindPadded(mode) ==
  IF mode = SymlinkMode THEN "Symlink"
  ELSE IF mode = <<48>> \o DirMode THEN "Dir"
  ELSE "File"

\* git.py:474-479 over the bytes of the mode.
ModeKind(mode) ==
  IF mode = SymlinkMode THEN "Symlink"
  ELSE IF mode = DirMode THEN "Dir"
  ELSE "File"

Decoded(exc, tree) == [exc |-> exc, tree |-> tree]

RECURSIVE TreeFromBytes(_, _, _)
\* The loop of git.py:461-479 from offset i on, with the entries decoded so far.
TreeFromBytes(tree_data, i, tree) ==
  IF i >= Len(tree_data) THEN Decoded("", tree)
  ELSE IF ScanTo(tree_data, i, SpaceByte) < 0 THEN Decoded("IndexError", tree)
  ELSE IF ScanTo(tree_data, ScanTo(tree_data, i, SpaceByte) + 1, NulByte) < 0
    THEN Decoded("IndexError", tree)
  ELSE
    LET sp == ScanTo(tree_data, i, SpaceByte)
        nul == ScanTo(tree_data, sp + 1, NulByte)
        name == Slice(tree_data, sp + 1, nul)
        e == Entry(ModeKind(Slice(tree_data, i, sp)), name,
                   EncodeHex(Slice(tree_data, nul + 1, nul + 1 + ShaLen)))
    IN TreeFromBytes(tree_data, nul + 1 + ShaLen, (name :> e) @@ tree)

\* The records the buffers are made of: the bytes of a mode, of a name and of
\* a raw sha, each under a label.
ModeBytes ==
  [ file    |-> <<49, 48, 48, 54, 52, 52>>,
    exec    |-> <<49, 48, 48, 55, 53, 53>>,
    dir     |-> DirMode,
    symlink |-> SymlinkMode ]

NameBytes ==
  [ f  |-> <<102>>,
    d  |-> <<100>>,
    l  |-> <<108>>,
    ab |-> <<97, 32, 98>> ]

ShaBytes ==
  [ s1 |-> [i \in 1..ShaLen |-> i],
    s2 |-> [i \in 1..ShaLen |-> IF i = 1 THEN 0 ELSE IF i = 2 THEN 32
                                ELSE IF i = 3 THEN 255 ELSE 170] ]

Record(mode, name, sha) == [mode |-> mode, name |-> name, sha |-> sha]

EncodeRecord(r) ==
  ModeBytes[r.mode] \o <<SpaceByte>> \o NameBytes[r.name] \o <<NulByte>> \o ShaBytes[r.sha]

RECURSIVE EncodeTree(_)
EncodeTree(records) ==
  IF records = <<>> THEN <<>>
  ELSE EncodeRecord(Head(records)) \o EncodeTree(Tail(records))

\* The trees whose buffers are decoded, each a list of records of distinct names.
RecordLists ==
  { <<>>,
    << Record("file", "f", "s1") >>,
    << Record("dir", "d", "s2") >>,
    << Record("file", "f", "s1"), Record("dir", "d", "s2"), Record("symlink", "l", "s1") >>,
    << Record("symlink", "l", "s2"), Record("exec", "ab", "s1") >> }

\* The buffers decoded: every tree whole, and cut short at every length.
DecodeInputs ==
  UNION { { [records |-> rs, tree_data |-> SubSeq(EncodeTree(rs), 1, n)] :
              n \in 0..Len(EncodeTree(rs)) } : rs \in RecordLists }

\* The revision the decoded buffers are the root tree of.
DecodeRev == "rd"

InitDecode ==
  /\ trees = NoTrees
  /\ started = TRUE
  /\ written = <<>>
  /\ last = [op |-> "init", rev |-> "", relpath |-> <<>>, mode |-> "",
             out |-> Outcome("return"), resolved |-> ReturnNone]
  /\ scope = NoScope
  /\ streams = {}
  /\ PipeStarted
  /\ walk = NoWalk
  /\ \E input \in DecodeInputs :
       decoding = [records |-> input.records, tree_data |-> input.tree_data,
                   done |-> FALSE, exc |-> "", tree |-> EmptyTree]

\* git.py:480-481 after the loop: the tree stored, unless the loop has raised.
DecodeEnd(r) ==
  /\ decoding' = [decoding EXCEPT !.done = TRUE, !.exc = r.exc,
                                  !.tree = IF r.exc = "" THEN r.tree ELSE EmptyTree]
  /\ trees' = IF r.exc = "" THEN (CacheKey(DecodeRev, <<>>) :> r.tree) @@ trees
              ELSE trees

\* _read_tree(rev, '') from the buffer the fetch has returned (git.py:457-481).
Decode ==
  /\ ~decoding.done
  /\ DecodeEnd(TreeFromBytes(decoding.tree_data, 0, EmptyTree))
  /\ UNCHANGED <<started, written, last, scope, streams>>
  /\ UNCHANGED <<pipe, walk>>

NextDecode == Decode

SpecDecode == InitDecode /\ [][NextDecode]_vars

\* ------------------------------------------------------------ properties
Range(seq) == { seq[i] : i \in 1..Len(seq) }

ResolveFailures == {"MissingFileException", "NotADirException", "SymlinkLoopException"}

\* C1: every resolve call returns a path or raises one of MissingFile,
\* NotADirectory and SymlinkLoop; it never ends without a result.
C1_ResolveTotal ==
  last.op = "resolve" =>
    \/ last.out.kind = "return" /\ ~last.out.none
    \/ last.out.kind = "raise" /\ last.out.exc \in ResolveFailures

ChainIndex(path) == CHOOSE k \in 0..ChainMax : path = <<ChainName(k)>>

\* C2: resolving the chain link cn, which follows n symlinks to the file c0,
\* returns c0 for every n <= 40 and raises SymlinkLoop, carrying the call's
\* revision and path, for every n > 40.
C2_HopBound ==
  (last.op = "resolve" /\ last.rev = "rc") =>
    IF ChainIndex(last.relpath) <= MaxSymlinks
      THEN last.out.kind = "return" /\ last.out.val = <<ChainName(0)>>
      ELSE /\ last.out.kind = "raise"
           /\ last.out.exc = "SymlinkLoopException"
           /\ last.out.rev = last.rev
           /\ last.out.relpath = last.relpath

\* A chain of exactly 40 symlinks has been resolved.
C2_Witness ==
  /\ last.op = "resolve"
  /\ last.rev = "rc"
  /\ last.relpath = <<ChainName(MaxSymlinks)>>
  /\ last.out.kind = "return"
  /\ last.out.val = <<ChainName(0)>>

\* C3: a resolve call raises MissingFile exactly when a popped component is
\* not in its parent's tree, and NotADirectory exactly when the component is a
\* file and components remain; both carry the call's revision and path.
C3_MissingAndNotADir ==
  last.op = "resolve" =>
    /\ (last.out.kind = "raise" /\ last.out.exc = "MissingFileException")
         <=> (last.resolved.kind = "raise" /\ last.resolved.via = "keyerror")
    /\ (last.out.kind = "raise" /\ last.out.exc = "NotADirException")
         <=> (last.resolved.kind = "raise" /\ last.resolved.via = "file")
    /\ (last.out.kind = "raise" /\ last.out.exc \in {"MissingFileException",
                                                     "NotADirException"})
         => (last.out.rev = last.rev /\ last.out.relpath = last.relpath)

Classifiers == {"exists", "isfile", "isdir"}

\* C4: exists, isfile and isdir return False when _realpath raises MissingFile
\* or NotADirectory, and raise what _realpath raised, unchanged, otherwise.
C4_ClassifiersPropagate ==
  (last.op \in Classifiers /\ last.resolved.kind = "raise") =>
    IF last.resolved.exc \in {"MissingFileException", "NotADirException"}
      THEN last.out.kind = "return" /\ last.out.bool = FALSE
      ELSE /\ last.out.kind = "raise"
           /\ last.out.exc = last.resolved.exc
           /\ last.out.rev = last.resolved.rev
           /\ last.out.relpath = last.resolved.relpath

\* isdir has met a symlink loop and raised it.
C4_Witness ==
  /\ last.op = "isdir"
  /\ last.resolved.kind = "raise"
  /\ last.resolved.exc = "SymlinkLoopException"
  /\ last.out.kind = "raise"
  /\ last.out.exc = "SymlinkLoopException"

\* C5: for the path of the last classifier call, a path that resolves to a
\* directory has isdir true and isfile false, a path that resolves to a file
\* has isfile true and isdir false, a missing path has all three false, and
\* when exists is true exactly one of isfile and isdir is true.
C5_ExactlyOneKind ==
  last.op \in Classifiers =>
    LET e == exists(trees, last.rev, last.relpath).out
        f == isfile(trees, last.rev, last.relpath).out
        d == isdir(trees, last.rev, last.relpath).out
        True(o) == o.kind = "return" /\ o.bool
        False(o) == o.kind = "return" /\ ~o.bool
    IN /\ last.resolved.via = "dir" => (True(d) /\ False(f))
       /\ last.resolved.via = "file" => (True(f) /\ False(d))
       /\ last.resolved.via = "keyerror" => (False(e) /\ False(f) /\ False(d))
       /\ True(e) => ((True(f) /\ False(d)) \/ (False(f) /\ True(d)))

StoreFailures == {"MissingFileException", "IsDirException", "AssertionError",
                  "RuntimeError", "ValueError"}

\* C6: when _realpath yields an escape path, neither open nor the end of its
\* with-block writes a request for that path to the subprocess, and neither
\* raises a failure of the store.
C6_EscapeBypassesStore ==
  (/\ last.op \in {"open", "open_exit", "open_raise"}
   /\ last.mode = "rb"
   /\ last.resolved.kind = "return"
   /\ last.resolved.via = "escape"
   /\ ~endswith(last.resolved.val, <<SEP>>)) =>
    /\ RequestLine(last.rev, last.resolved.val, None) \notin Range(written)
    /\ ~(last.out.kind = "raise" /\ last.out.exc \in StoreFailures)

\* The bytes of the blob the store holds at a path of a revision.
StoredBlob(rev, path) == Object(GitWalk(Commits[rev], split(path))).data

\* C7: open in mode rb of a path that resolves to a file of the repository
\* yields a stream of exactly the bytes of the blob stored at the resolved
\* path; a path that resolves to a directory raises IsDirectory, and no stream
\* is yielded.
C7_OpenReads ==
  (/\ last.op = "open"
   /\ last.mode = "rb"
   /\ last.resolved.kind = "return"
   /\ ~last.resolved.none) =>
    /\ last.resolved.via = "file" =>
         /\ last.out.kind = "yield"
         /\ last.out.src = "store"
         /\ last.out.data = StoredBlob(last.rev, last.resolved.val)
         /\ scope.active
    /\ endswith(last.resolved.val, <<SEP>>) =>
         /\ last.out.kind = "raise"
         /\ last.out.exc = "IsDirException"
         /\ last.out.rev = last.rev
         /\ last.out.relpath = last.relpath
         /\ ~scope.active

\* open has followed the symlink l to the file d/f and yielded its bytes.
C7_Witness ==
  /\ last.op = "open"
  /\ last.relpath = <<"l", SEP, "f">>
  /\ last.resolved.val = <<"d", SEP, "f">>
  /\ last.out.kind = "yield"
  /\ last.out.data = <<"bytes_df">>

\* The entry names of the tree the store holds at a directory of a revision.
StoredNames(rev, path) ==
  { r.name : r \in Range(Object(GitWalk(Commits[rev],
                                        IF path = <<>> THEN <<>> ELSE split(path))).data) }

\* C8: when _realpath returns a directory path, listdir returns exactly the
\* entry names of the tree stored at it; when _realpath returns anything else,
\* listdir raises NotADirectory.
C8_Listdir ==
  (last.op = "listdir" /\ last.resolved.kind = "return") =>
    IF ~last.resolved.none /\ endswith(last.resolved.val, <<SEP>>)
      THEN /\ last.out.kind = "return"
           /\ last.out.names =
                StoredNames(last.rev,
                            SubSeq(last.resolved.val, 1, Len(last.resolved.val) - 1))
      ELSE /\ last.out.kind = "raise"
           /\ last.out.exc = "NotADirException"

\* C9: whatever the cache holds, a resolve call ends as it does on a resolver
\* whose cache is empty: the call just made did, and so would any call made
\* now.
C9_ResolveIgnoresCache ==
  /\ last.op = "resolve" =>
       last.resolved = Realpath(NoTrees, <<>>, last.rev, last.relpath).out
  /\ \A i \in Inputs :
       Realpath(trees, <<>>, i[1], i[2]).out = Realpath(NoTrees, <<>>, i[1], i[2]).out

\* d/f has been resolved from the cache alone, no request written.
C9_Witness ==
  /\ last.op = "resolve"
  /\ last.relpath = <<"d", SEP, "f">>
  /\ last.out.kind = "return"
  /\ last.out.val = <<"d", SEP, "f">>
  /\ written = <<>>
  /\ <<"r1", <<"d">>>> \in DOMAIN trees

\* C10: a path returned by resolve starts with ../ or / exactly when it is a
\* symlink target outside the repository.
C10_EscapeMarker ==
  (last.op = "resolve" /\ last.out.kind = "return" /\ ~last.out.none) =>
    (IsEscape(last.out.val) <=> last.resolved.via = "escape")

\* C11: once the with-block of an open call has been left, normally or by an
\* exception, no stream that call has opened is still open.
C11_StreamsReleased ==
  last.op \in {"open_exit", "open_raise"} => streams = {}

\* A fetch that has read nothing, and whose pipe holds nothing to read.
Awaiting(c) ==
  /\ fetch[c].pc \in {"readline", "poll"}
  /\ fetch[c].got = <<>>
  /\ stdout = <<>>

\* C12: a fetch that awaits its header when the subprocess has ended, with
\* whatever status, goes on to raise GitDied; and no fetch raises GitDied
\* while the subprocess runs.
C12_GitDied ==
  /\ [](returncode = None => fetch["a"].out.exc # "GitDiedException")
  /\ ((Awaiting("a") /\ returncode # None)
        ~> (fetch["a"].pc = "idle" /\ fetch["a"].out.exc = "GitDiedException"))

\* C13: every call of _realpath ends; while it runs it has followed at most
\* MaxSymlinks symlinks, and the walk of a symlink cycle ends with SymlinkLoop;
\* every pass of the loop ends the call, or follows one more symlink, or leaves
\* the queue of components shorter with the count of symlinks as it was.
C13_Terminates ==
  /\ [](walk.st.symlinks <= MaxSymlinks)
  /\ []((walk.st.done /\ walk.relpath \in { <<"loop">>, <<"a", SEP, "ping">>,
                                             <<"a", SEP, "pong", SEP, "x">> })
         => walk.st.out.exc = "SymlinkLoopException")
  /\ [][~walk.st.done =>
          \/ walk'.st.done
          \/ walk'.st.symlinks = walk.st.symlinks + 1
          \/ /\ walk'.st.symlinks = walk.st.symlinks
             /\ Len(walk'.st.components) < Len(walk.st.components)]_vars
  /\ (~walk.st.done ~> walk.st.done)

\* The walk of the two-link cycle is at its last pass: 40 symlinks followed.
C13_Witness ==
  /\ walk.relpath = <<"a", SEP, "ping">>
  /\ ~walk.st.done
  /\ walk.st.symlinks = MaxSymlinks
  /\ walk.st.components = <<<<"a">>, <<"ping">>>>

\* C14: for every key the cache holds, _read_tree returns the tree stored
\* under the key and writes no request to the subprocess.
C14_CacheHitNoFetch ==
  \A key \in DOMAIN trees :
    LET rt == ReadTree(trees, <<>>, key[1], key[2])
    IN /\ rt.exc = ""
       /\ rt.tree = trees[key]
       /\ rt.written = <<>>

Front(seq) == SubSeq(seq, 1, Len(seq) - 1)

\* The store holds a symlink at the path, under directories alone.
StoredSymlink(rev, path) ==
  /\ rev \in DOMAIN Commits
  /\ path # <<>>
  /\ \A i \in 1..Len(split(path)) : split(path)[i] \notin {<<>>, <<DOT>>, DotDot}
  /\ LET dir == GitWalk(Commits[rev], Front(split(path)))
     IN /\ dir # ""
        /\ Object(dir).type = "tree"
        /\ \E r \in Range(Object(dir).data) :
             r.name = split(path)[Len(split(path))] /\ r.mode = "120000"

\* The symlink's target, normalized against the symlink's parent directory.
StoredTarget(rev, path) ==
  normpath(pathjoin(join(Front(split(path))), StoredBlob(rev, path)))

\* C15: resolving a path that names a symlink returns the root directory
\* when the symlink's normalized target is the repository root, and returns
\* the normalized target, as an escape path, when it is the directory above
\* the root or starts with ../ or /.
C15_LinkToRootOrAbove ==
  (last.op = "resolve" /\ StoredSymlink(last.rev, last.relpath)) =>
    LET target == StoredTarget(last.rev, last.relpath)
    IN /\ target = <<DOT>> =>
            (last.out.kind = "return" /\ last.out.val = <<SEP>>)
       /\ (target = DotDot \/ PointsOutside(target)) =>
            /\ last.out.kind = "return"
            /\ last.out.val = target
            /\ last.resolved.via = "escape"

\* The mode of the record the store holds for a path, given as its
\* components, or "" when it holds none.
StoredMode(rev, comps) ==
  LET dir == GitWalk(Commits[rev], Front(comps))
  IN IF dir = "" THEN ""
     ELSE IF Object(dir).type # "tree" THEN ""
     ELSE LET hits == {r \in Range(Object(dir).data) : r.name = comps[Len(comps)]}
          IN IF hits = {} THEN "" ELSE (CHOOSE r \in hits : TRUE).mode

\* C16: a path _realpath returns that does not start with ../ or / has no
\* empty, "." or ".." component; every proper prefix of it is a directory of
\* the revision; and its last component is a directory when the path ends
\* with a separator, and a file (neither a directory nor a symlink) when not.
C16_Canonical ==
  (/\ last.resolved.kind = "return"
   /\ ~last.resolved.none
   /\ ~IsEscape(last.resolved.val)) =>
    LET val == last.resolved.val
        comps == split(IF endswith(val, <<SEP>>) THEN Front(val) ELSE val)
    IN /\ last.rev \in DOMAIN Commits
       /\ \A i \in 1..Len(comps) : comps[i] \notin {<<>>, <<DOT>>, DotDot}
       /\ \A n \in 1..(Len(comps) - 1) :
            StoredMode(last.rev, SubSeq(comps, 1, n)) = "40000"
       /\ IF endswith(val, <<SEP>>)
            THEN StoredMode(last.rev, comps) = "40000"
            ELSE StoredMode(last.rev, comps) \notin {"", "40000", "120000"}

\* l/f has been resolved, through the symlink l, to the file d/f.
C16_Witness ==
  /\ last.op = "resolve"
  /\ last.relpath = <<"l", SEP, "f">>
  /\ last.resolved.kind = "return"
  /\ last.resolved.val = <<"d", SEP, "f">>
  /\ StoredMode("r1", <<<<"l">>>>) = "120000"
  /\ StoredMode("r1", <<<<"d">>, <<"f">>>>) = "100644"

\* The lengths at which a buffer made of the records ends with a whole record.
Boundaries(records) ==
  { Len(EncodeTree(SubSeq(records, 1, k))) : k \in 0..Len(records) }

\* C17: decoding a buffer that ends inside a record (in its mode, in its
\* name, or with fewer than 20 bytes of sha) raises, and no tree is stored in
\* the cache.
C17_MalformedRaises ==
  (decoding.done /\ Len(decoding.tree_data) \notin Boundaries(decoding.records)) =>
    /\ decoding.exc # ""
    /\ CacheKey(DecodeRev, <<>>) \notin DOMAIN trees

\* The entry class of each mode, and each sha in hex.
Variant == [file |-> "File", exec |-> "File", dir |-> "Dir", symlink |-> "Symlink"]

ShaHex ==
  [ s1 |-> "0102030405060708090a0b0c0d0e0f1011121314",
    s2 |-> "0020ffaaaaaaaaaaaaaaaaaaaaaaaaaaaaaaaaaa" ]

\* C18: decoding the buffer of a list of records of distinct names returns,
\* and stores, a mapping with one entry for each record, under the record's
\* name: a Symlink for the mode 120000, a Dir for 40000 and a File for any
\* other mode, with the record's sha in hex.
C18_WellFormedDecodes ==
  (decoding.done /\ decoding.tree_data = EncodeTree(decoding.records)) =>
    /\ decoding.exc = ""
    /\ DOMAIN decoding.tree = { NameBytes[r.name] : r \in Range(decoding.records) }
    /\ Cardinality(DOMAIN decoding.tree) = Len(decoding.records)
    /\ \A r \in Range(decoding.records) :
         decoding.tree[NameBytes[r.name]] =
           Entry(Variant[r.mode], NameBytes[r.name], ShaHex[r.sha])
    /\ CacheKey(DecodeRev, <<>>) \in DOMAIN trees
    /\ trees[CacheKey(DecodeRev, <<>>)] = decoding.tree

\* The buffer of a file, a directory and a symlink has been decoded whole.
C18_Witness ==
  /\ decoding.done
  /\ Len(decoding.records) = 3
  /\ decoding.tree_data = EncodeTree(decoding.records)
  /\ Len(decoding.tree_data) = 86
  /\ decoding.tree[<<100>>] =
       Entry("Dir", <<100>>, "0020ffaaaaaaaaaaaaaaaaaaaaaaaaaaaaaaaaaa")
  /\ decoding.tree[<<108>>].kind = "Symlink"
  /\ decoding.tree[<<102>>].kind = "File"

\* The header "<request> missing" has been read as the answer to the request.
MissingHeader(f) ==
  /\ f.spec # <<>>
  /\ f.header = SubSeq(f.spec, 1, Len(f.spec) - 1) \o <<SP, "missing", NL>>

\* C19: a fetch that has read the header "<request> missing", the subprocess
\* still running, ends with MissingFile carrying the revision and the path of
\* the call, whatever the request was.
C19_MissingHeader ==
  \A c \in Callers :
    (/\ MissingHeader(fetch[c])
     /\ returncode = None
     /\ fetch[c].pc \notin {"poll", "parse"}) =>
      /\ fetch[c].pc = "idle"
      /\ fetch[c].out = FetchOut("raise", "MissingFileException",
                                 fetch[c].rev, fetch[c].relpath)

\* C20: with one caller, the pipe holds at most one request or its response;
\* a fetch in progress has written one request line, and what it has read and
\* what is left to read are together the response to that request; a fetch
\* that has returned or raised MissingFile has read exactly that response, and
\* a fetch that has ended with the subprocess running leaves nothing unread.
C20_PipeInSync ==
  LET f == fetch["a"] IN
  /\ Len(stdin) <= 1
  /\ stdin # <<>> => stdout = <<>>
  /\ f.pc # "idle" =>
       \/ stdin = <<f.spec>> /\ stdout = <<>> /\ f.got = <<>>
       \/ stdin = <<>> /\ f.got \o stdout = Flatten(CatFile(f.spec))
  /\ (f.pc = "idle" /\ (f.out.kind = "return" \/ f.out.exc = "MissingFileException")) =>
       /\ f.got = Flatten(CatFile(f.spec))
       /\ stdin = <<>>
       /\ stdout = <<>>
  /\ (f.pc = "idle" /\ returncode = None) => (stdin = <<>> /\ stdout = <<>>)

\* A blob whose bytes hold a newline has been fetched whole, by its length.
C20_Witness ==
  /\ fetch["a"].pc = "idle"
  /\ fetch["a"].out.kind = "return"
  /\ fetch["a"].spec = <<"b_text", NL>>
  /\ fetch["a"].blob = <<"one", NL, "two">>
  /\ fetch["a"].got = <<"b_text", SP, "blob", SP, "3", NL, "one", NL, "two", NL>>
  /\ stdout = <<>>

\* The caller has read bytes that answer another caller's request.
CrossRead(c) == wire.got[c] \ {c} # {}

\* C21: a caller reads bytes that answer the other caller's request only
\* where the callers use no lock.  Where every public call is wrapped in one
\* lock, only the holder of the lock is inside a fetch, and while the
\* subprocess runs every request line and every byte in the pipe belongs to
\* the holder of the lock, so that nothing is left for the next caller.
C21_CrossReadOnlyUnlocked ==
  /\ \A c \in Callers : CrossRead(c) => ~lock.used
  /\ lock.used =>
       /\ \A c \in Callers : fetch[c].pc # "idle" => lock.holder = c
       /\ returncode = None =>
             /\ \A i \in 1..Len(wire.asked) : wire.asked[i] = lock.holder
             /\ \A i \in 1..Len(wire.unread) : wire.unread[i] = lock.holder

\* Without a lock: "b" asked for a path of r1 after "a" asked for b_text, and
\* has read the header and the body of the answer to "a", while "a" waits.
C21_Witness ==
  /\ ~lock.used
  /\ returncode = None
  /\ fetch["a"].spec = <<"b_text", NL>>
  /\ fetch["a"].pc = "readline"
  /\ fetch["b"].spec = RequestLine("r1", <<"nope">>, None)
  /\ fetch["b"].header = <<"b_text", SP, "blob", SP, "3", NL>>
  /\ fetch["b"].blob = <<"one", NL, "two">>
  /\ fetch["b"].pc = "newline"
  /\ wire.got["b"] = {"a"}
  /\ CrossRead("b")

====
